---- MODULE Spec2Model ----
(***************************************************************************)
(* Model of cloudflare-ddns.js: the startup phase, the reconciliation      *)
(* cycle (checkAndUpdate), the self-rescheduling timer and the graceful    *)
(* shutdown handler.  The program runs on one JavaScript event loop: an    *)
(* action of this model is one run-to-completion step, from the point      *)
(* where an awaited promise or a timer fires to the next await.  Time is   *)
(* abstract: a timer that is armed may fire at any later step.             *)
(***************************************************************************)
EXTENDS Integers, Sequences, FiniteSets, TLC

\* ---------------------------------------------------------------- bounds
NumDomains == 2       \* number of valid entries of config.domains
MaxRetries == 4       \* largest `retries` option tried on retryCloudflareAPI

\* ------------------------------------------------------ program constants
STARTUP_RETRIES == 5
CHECK_INTERVAL_SECONDS == 60
DefaultRetries == 3
DefaultInitialDelayMs == 1000
MaxBackoffMs == 10000
NotifyRetries == 5

\* ------------------------------------------------------------ value sets
IPs == {"1.2.3.4", "5.6.7.8"}
Null == "null"
Errors == {"HTTP 500", "HTTP 429"}
DOMAINS == 1..NumDomains
Callers == {"startup", "timer", "tick"}
InitialDelays == {500, 1000, 4000}

\* config.json: a credential is absent (or ""), whitespace only, or a token
TokenVals == {"absent", "blank", "tok"}
\* telegram section: absent, one of botToken/chatId missing, both present
TelegramVals == {"absent", "partial", "full"}
\* defaults.checkIntervalSeconds, 0 when the key is absent
IntervalVals == {0, 30, 120}
\* an entry of domains[]: name and zoneId present or not, its own apiToken
DomainEntries == [name : BOOLEAN, zoneId : BOOLEAN, apiToken : TokenVals]
DomainLists == UNION {[1..n -> DomainEntries] : n \in 0..NumDomains}
Configs == [telegram : TelegramVals,
            defaults : [apiToken : TokenVals, checkIntervalSeconds : IntervalVals],
            domains : DomainLists]

VARIABLES
  telegram,        \* TELEGRAM_BOT_TOKEN and TELEGRAM_CHAT_ID are both set
  dns,             \* provider side: content of the A record of each domain, or Null
  isRunning,       \* line 112
  isShuttingDown,  \* line 299
  timer,           \* line 298: "null", or the state of the handle it holds
  main,            \* position of startupWithRetry().then(...)
  sAttempt,        \* loop variable `attempt` of startupWithRetry
  active,          \* callers whose checkAndUpdate body is between lines 273 and 293
  warnedBusy,      \* the warning of line 269 was the last thing checkAndUpdate did
  cpc,             \* await the executing body is suspended at
  publicIp,        \* local of checkAndUpdate
  idx,             \* position of the for-of loop over DOMAINS
  rt,              \* frame of the retryCloudflareAPI call in progress
  nAttempt,        \* loop variable `attempt` of sendTelegramMessage
  abortTimer,      \* the timer of line 186 of the current attempt: "none", "armed", "cleared", "fired"
  ipResolves,      \* getPublicIp calls made by the current cycle
  stage,           \* how far the current cycle got with each domain
  fetched,         \* record.ip returned by getARecord per domain, or Null
  patched,         \* `content` of the PATCH requests issued per domain, or Null
  notifResult,     \* per domain: "none", or how the sendTelegramMessage call stands
  pollTimers,      \* setInterval handles registered by gracefulShutdown
  forceTimers,     \* 30 s setTimeout handles registered by gracefulShutdown
  exitCode,        \* {} while the process runs, {status} after process.exit
  hFails,          \* retry harness: times fn has thrown
  hRaised,         \* retry harness: the error fn threw last
  ignoredSignal,   \* gracefulShutdown has returned at line 340
  sDelay,          \* ms startupWithRetry is sleeping at line 319, 0 when it is not
  timerMs,         \* delay the handle in `timer` was armed with, 0 for "null"
  calls,           \* per domain: updateARecord calls, PATCH target, sendTelegramMessage calls
  config,          \* parsed content of config.json
  loaded           \* the DOMAINS array built by loadConfig

lifeVars == <<isShuttingDown, pollTimers, forceTimers, exitCode, ignoredSignal>>
cfgVars == <<config, loaded>>
cycVars == <<cpc, publicIp, idx, rt, nAttempt, abortTimer>>
flowVars == <<isRunning, active, main, timer, timerMs>>
histVars == <<ipResolves, stage, fetched, patched, notifResult, calls>>
harnessVars == <<hFails, hRaised>>
vars == <<telegram, dns, isRunning, isShuttingDown, timer, main, sAttempt, active,
          warnedBusy, cpc, publicIp, idx, rt, nAttempt, abortTimer, ipResolves, stage,
          fetched, patched, notifResult, pollTimers, forceTimers, exitCode,
          hFails, hRaised, ignoredSignal, sDelay, timerMs, calls, config, loaded>>

\* --------------------------------------------------------------- helpers
Min(a, b) == IF a < b THEN a ELSE b

RECURSIVE Pow2(_)
Pow2(n) == IF n <= 0 THEN 1 ELSE 2 * Pow2(n - 1)

Alive == exitCode = {}

\* ---------------------------------------------------- retryCloudflareAPI
\* Frame of one call: the options, the loop variable, the number of times
\* fn() was called, the delays slept so far and how the call stands.
NewFrame(retries, initialDelayMs) ==
  [retries |-> retries, initialDelayMs |-> initialDelayMs, attempt |-> 1,
   calls |-> 1, delays |-> <<>>, status |-> "calling", error |-> Null]

NoFrame ==
  [retries |-> DefaultRetries, initialDelayMs |-> DefaultInitialDelayMs, attempt |-> 0,
   calls |-> 0, delays |-> <<>>, status |-> "none", error |-> Null]

isLastMutant(attempt, retries) == attempt >= retries - 1
isLast(attempt, retries) == attempt = retries

retryDelayMutant(initialDelayMs, attempt) == Min(initialDelayMs * Pow2(attempt), MaxBackoffMs)
retryDelay(initialDelayMs, attempt) == Min(initialDelayMs * Pow2(attempt - 1), MaxBackoffMs)

\* fn() resolved: `return await fn()`
retryOnReturn(f) == [f EXCEPT !.status = "returned"]

\* fn() threw e: the catch block of lines 119-130
retryOnThrow(f, e) ==
  IF isLast(f.attempt, f.retries)
    THEN [f EXCEPT !.status = "thrown", !.error = e]
    ELSE [f EXCEPT !.status = "sleeping", !.error = e,
                   !.delays = Append(@, retryDelay(f.initialDelayMs, f.attempt))]

\* the sleep of line 128 is over: attempt++ and fn() is called again
retryOnWake(f) ==
  [f EXCEPT !.attempt = @ + 1, !.calls = @ + 1, !.status = "calling", !.error = Null]

\* ------------------------------------------------------------------ Init
NoCalls == [update |-> 0, target |-> 0, notify |-> 0]

ZeroHist ==
  /\ ipResolves = 0
  /\ stage = [d \in DOMAINS |-> "none"]
  /\ fetched = [d \in DOMAINS |-> Null]
  /\ patched = [d \in DOMAINS |-> Null]
  /\ notifResult = [d \in DOMAINS |-> "none"]
  /\ calls = [d \in DOMAINS |-> NoCalls]

InitProgram ==
  /\ isRunning = FALSE
  /\ isShuttingDown = FALSE
  /\ timer = "null"
  /\ sAttempt = 0
  /\ active = {}
  /\ warnedBusy = FALSE
  /\ cpc = "idle"
  /\ publicIp = Null
  /\ idx = 0
  /\ nAttempt = 0
  /\ abortTimer = "none"
  /\ ZeroHist
  /\ pollTimers = 0
  /\ forceTimers = 0
  /\ exitCode = {}
  /\ hFails = 0
  /\ hRaised = Null
  /\ ignoredSignal = FALSE
  /\ sDelay = 0
  /\ timerMs = 0

\* lines 19-67, after JSON.parse
RECURSIVE keepValid(_)
keepValid(ds) ==
  IF ds = <<>> THEN <<>>
  ELSE LET d == Head(ds) IN
       IF d.name /\ d.zoneId                                   \* line 49
         THEN <<d>> \o keepValid(Tail(ds))
         ELSE keepValid(Tail(ds))

\* line 53: d.apiToken || defaultApiToken
withDefaultToken(ds, defaultApiToken) ==
  [i \in 1..Len(ds) |->
     [ds[i] EXCEPT !.apiToken = IF @ # "absent" THEN @ ELSE defaultApiToken]]

loadConfig(c) == withDefaultToken(keepValid(c.domains), c.defaults.apiToken)

\* lines 35-38: both notifier credentials are set
telegramConfigured(c) == c.telegram = "full"

\* line 88
tokenMissingMutant(t) == t = "absent"
tokenMissing(t) == t = "absent" \/ t = "blank"

\* lines 73-93: the errors validateConfig collects
validateErrors(ds) ==
  (IF Len(ds) = 0 THEN {"no domains"} ELSE {})
  \cup {<<i, "name">> : i \in {j \in 1..Len(ds) : ~ds[j].name}}
  \cup {<<i, "zoneId">> : i \in {j \in 1..Len(ds) : ~ds[j].zoneId}}
  \cup {<<i, "apiToken">> : i \in {j \in 1..Len(ds) : tokenMissing(ds[j].apiToken)}}

\* the configuration the cycles of Spec run under: every domain of DOMAINS
\* listed with its own token
RunConfig(tg) ==
  [telegram |-> IF tg THEN "full" ELSE "absent",
   defaults |-> [apiToken |-> "absent", checkIntervalSeconds |-> 0],
   domains |-> [d \in DOMAINS |-> [name |-> TRUE, zoneId |-> TRUE, apiToken |-> "tok"]]]

Init ==
  /\ telegram \in BOOLEAN
  /\ dns \in [DOMAINS -> IPs \cup {Null}]
  /\ rt = NoFrame
  /\ main = "delay"
  /\ config = RunConfig(telegram)
  /\ loaded = loadConfig(config)
  /\ InitProgram

\* ----------------------------------------------------- scheduleNextCheck
mayScheduleMutant == TRUE
maySchedule == ~isShuttingDown

scheduleNextCheck ==
  /\ timer' = IF maySchedule THEN "armed" ELSE timer
  /\ timerMs' = IF maySchedule THEN CHECK_INTERVAL_SECONDS * 1000 ELSE timerMs

\* ------------------------------------------------------- checkAndUpdate
busyMutant == FALSE
busy == isRunning

\* lines 273-275: isRunning = true, then the body suspends in getPublicIp
startBody(c) ==
  /\ isRunning' = TRUE
  /\ active' = active \cup {c}
  /\ warnedBusy' = FALSE
  /\ cpc' = "ip"
  /\ publicIp' = Null
  /\ idx' = 0
  /\ rt' = NoFrame
  /\ nAttempt' = 0 /\ abortTimer' = "none"
  /\ ipResolves' = 1
  /\ stage' = [d \in DOMAINS |-> "none"]
  /\ fetched' = [d \in DOMAINS |-> Null]
  /\ patched' = [d \in DOMAINS |-> Null]
  /\ notifResult' = [d \in DOMAINS |-> "none"]
  /\ calls' = [d \in DOMAINS |-> NoCalls]

\* lines 268-271: warn and return
dropCall ==
  /\ warnedBusy' = TRUE
  /\ UNCHANGED <<isRunning, active, cycVars, histVars>>

\* lines 292-294, then the caller that awaited the body resumes:
\* startupWithRetry returns true and its .then arms the timer (lines 312-313,
\* 378-381); the timer callback calls scheduleNextCheck (line 332)
runningAfterBodyMutant == TRUE
runningAfterBody == FALSE

endBody ==
  LET c == CHOOSE x \in active : TRUE IN
  /\ isRunning' = runningAfterBody
  /\ active' = active \ {c}
  /\ cpc' = "idle"
  /\ idx' = 0
  /\ rt' = NoFrame
  /\ nAttempt' = 0 /\ abortTimer' = "none"
  /\ CASE c = "startup" -> main' = "done" /\ scheduleNextCheck
       [] c = "timer" -> UNCHANGED main /\ scheduleNextCheck
       [] OTHER -> UNCHANGED <<main, timer, timerMs>>

\* the for-of loop of line 281 reaches DOMAINS[i] and getARecord issues its
\* GET, or the loop is over; st is what became of the domain just left
nextDomain(i, st) ==
  IF i > NumDomains
    THEN endBody /\ stage' = st
    ELSE /\ cpc' = "fetch"
         /\ idx' = i
         /\ nAttempt' = 0 /\ abortTimer' = "none"
         /\ rt' = NewFrame(DefaultRetries, DefaultInitialDelayMs)
         /\ stage' = [st EXCEPT ![i] = "fetching"]
         /\ UNCHANGED flowVars

\* ---------------------------------------------------------- getPublicIp
IpResponses ==
  {[ok |-> TRUE, ip |-> i] : i \in IPs \cup {Null}} \cup {[ok |-> FALSE, ip |-> Null]}

getPublicIp(resp) == IF resp.ok THEN resp.ip ELSE Null

\* ----------------------------------------------------- startupWithRetry
StartupDelayElapsed ==
  /\ Alive /\ main = "delay"
  /\ main' = "probe"
  /\ sAttempt' = 1
  /\ UNCHANGED <<telegram, dns, isRunning, active, timer, timerMs, sDelay, warnedBusy, cycVars,
                 histVars, lifeVars, harnessVars, cfgVars>>

\* line 317
startupDelayMutant(attempt) == Min(5000 * Pow2(attempt - 1), 30000)
startupDelay(attempt) == Min(5000 * attempt, 30000)

ProbeReturns(resp) ==
  /\ Alive /\ main = "probe"
  /\ IF getPublicIp(resp) # Null
       THEN IF busy
              THEN dropCall /\ main' = "done" /\ scheduleNextCheck
              ELSE startBody("startup") /\ main' = "cycle" /\ UNCHANGED <<timer, timerMs>>
       ELSE /\ UNCHANGED <<isRunning, active, warnedBusy, cycVars, histVars>>
            /\ IF sAttempt < STARTUP_RETRIES
                 THEN main' = "probeWait" /\ UNCHANGED <<timer, timerMs>>
                 ELSE main' = "done" /\ scheduleNextCheck
  /\ sDelay' = IF getPublicIp(resp) = Null /\ sAttempt < STARTUP_RETRIES
                 THEN startupDelay(sAttempt) ELSE 0
  /\ UNCHANGED <<telegram, dns, sAttempt, lifeVars, harnessVars, cfgVars>>

ProbeWaitElapsed ==
  /\ Alive /\ main = "probeWait"
  /\ main' = "probe"
  /\ sAttempt' = sAttempt + 1
  /\ sDelay' = 0
  /\ UNCHANGED <<telegram, dns, isRunning, active, timer, timerMs, warnedBusy, cycVars,
                 histVars, lifeVars, harnessVars, cfgVars>>

\* --------------------------------------- the callback of scheduleNextCheck
\* lines 330-333: the handle has fired and nothing re-arms it before the
\* awaited checkAndUpdate has returned
handleAfterFireMutant == "armed"
handleAfterFire == "fired"

TimerFires ==
  /\ Alive /\ timer = "armed"
  /\ IF busy
       THEN dropCall /\ scheduleNextCheck
       ELSE startBody("timer") /\ timer' = handleAfterFire /\ UNCHANGED timerMs
  /\ UNCHANGED <<telegram, dns, main, sAttempt, sDelay, lifeVars, harnessVars, cfgVars>>

\* ------------------------------------------------ checkAndUpdate, resumed
\* line 276: `if (!publicIp)`
noIpMutant(ip) == FALSE
noIp(ip) == ip = Null

\* line 283: `if (!record) continue;`
skipDomainMutant(i) == NumDomains + 1
skipDomain(i) == i + 1

recordMatchesMutant(recIp, ip) == FALSE
recordMatches(recIp, ip) == recIp = ip

\* identifiers the provider knows each domain's record and zone by
RecId(d) == 100 + d
ZoneId(d) == 200 + d

\* lines 159, 289, 227: the PATCH goes to record.recordId
patchTargetMutant(recordId, zoneId) == zoneId
patchTarget(recordId, zoneId) == recordId

\* line 281: the loop starts with the first entry of DOMAINS
firstDomainMutant == NumDomains
firstDomain == 1

updateContentMutant(newIp, oldIp) == oldIp
updateContent(newIp, oldIp) == newIp

IpReturns(resp) ==
  /\ Alive /\ cpc = "ip"
  /\ publicIp' = getPublicIp(resp)
  /\ IF noIp(getPublicIp(resp))
       THEN endBody /\ UNCHANGED stage
       ELSE nextDomain(firstDomain, stage)
  /\ UNCHANGED <<telegram, dns, sAttempt, sDelay, warnedBusy, ipResolves, calls, fetched, patched,
                 notifResult, lifeVars, harnessVars, cfgVars>>

\* the GET resolved with a 2xx body: lines 157-162, then lines 283-290
FetchOk ==
  /\ Alive /\ cpc = "fetch"
  /\ IF dns[idx] = Null
       THEN /\ nextDomain(skipDomain(idx), [stage EXCEPT ![idx] = "noRecord"])
            /\ UNCHANGED <<fetched, patched, calls>>
       ELSE /\ fetched' = [fetched EXCEPT ![idx] = dns[idx]]
            /\ IF recordMatches(dns[idx], publicIp)
                 THEN /\ nextDomain(idx + 1, [stage EXCEPT ![idx] = "match"])
                      /\ UNCHANGED <<patched, calls>>
                 ELSE /\ stage' = [stage EXCEPT ![idx] = "updating"]
                      /\ cpc' = "update"
                      /\ rt' = NewFrame(DefaultRetries, DefaultInitialDelayMs)
                      /\ patched' = [patched EXCEPT ![idx] = updateContent(publicIp, dns[idx])]
                      /\ calls' = [calls EXCEPT ![idx].update = @ + 1,
                                                ![idx].target = patchTarget(RecId(idx), ZoneId(idx))]
                      /\ UNCHANGED <<idx, nAttempt, abortTimer, flowVars>>
  /\ UNCHANGED <<telegram, dns, sAttempt, sDelay, warnedBusy, publicIp, ipResolves,
                 notifResult, lifeVars, harnessVars, cfgVars>>

\* the GET failed (line 156 or a transport error): catch of retryCloudflareAPI,
\* and on the last attempt the catch of getARecord (lines 164-167)
FetchFails(e) ==
  /\ Alive /\ cpc = "fetch"
  /\ LET f == retryOnThrow(rt, e) IN
       IF f.status = "thrown"
         THEN nextDomain(skipDomain(idx), [stage EXCEPT ![idx] = "fetchError"])
         ELSE /\ cpc' = "fetchSleep"
              /\ rt' = f
              /\ UNCHANGED <<idx, nAttempt, abortTimer, flowVars, stage>>
  /\ UNCHANGED <<telegram, dns, sAttempt, sDelay, warnedBusy, publicIp, ipResolves, calls,
                 fetched, patched, notifResult, lifeVars, harnessVars, cfgVars>>

FetchWake ==
  /\ Alive /\ cpc = "fetchSleep"
  /\ cpc' = "fetch"
  /\ rt' = retryOnWake(rt)
  /\ UNCHANGED <<telegram, dns, flowVars, sAttempt, sDelay, warnedBusy, publicIp, idx, nAttempt, abortTimer,
                 histVars, lifeVars, harnessVars, cfgVars>>

\* ------------------------------------------------- sendTelegramMessage
\* line 212: the last failed attempt returns false
sendOnLastFailureMutant == "thrown"
sendOnLastFailure == "notSent"

\* the PATCH resolved with success: lines 243-244, 250-259
UpdateOk ==
  /\ Alive /\ cpc = "update"
  /\ dns' = [dns EXCEPT ![idx] = patched[idx]]
  /\ calls' = [calls EXCEPT ![idx].notify = @ + 1]
  /\ IF ~telegram
       THEN /\ notifResult' = [notifResult EXCEPT ![idx] = "skipped"]
            /\ nextDomain(idx + 1, [stage EXCEPT ![idx] = "updated"])
       ELSE /\ notifResult' = [notifResult EXCEPT ![idx] = "pending"]
            /\ stage' = [stage EXCEPT ![idx] = "updated"]
            /\ cpc' = "notify"
            /\ nAttempt' = 1
            /\ abortTimer' = "armed"
            /\ rt' = NoFrame
            /\ UNCHANGED <<idx, flowVars>>
  /\ UNCHANGED <<telegram, sAttempt, sDelay, warnedBusy, publicIp, ipResolves, fetched,
                 patched, lifeVars, harnessVars, cfgVars>>

\* the PATCH failed (lines 241, 246 or a transport error); on the last
\* attempt the catch of updateARecord (lines 261-263)
UpdateFails(e) ==
  /\ Alive /\ cpc = "update"
  /\ LET f == retryOnThrow(rt, e) IN
       IF f.status = "thrown"
         THEN nextDomain(idx + 1, [stage EXCEPT ![idx] = "updateError"])
         ELSE /\ cpc' = "updateSleep"
              /\ rt' = f
              /\ UNCHANGED <<idx, nAttempt, abortTimer, flowVars, stage>>
  /\ UNCHANGED <<telegram, dns, sAttempt, sDelay, warnedBusy, publicIp, ipResolves, calls,
                 fetched, patched, notifResult, lifeVars, harnessVars, cfgVars>>

UpdateWake ==
  /\ Alive /\ cpc = "updateSleep"
  /\ cpc' = "update"
  /\ rt' = retryOnWake(rt)
  /\ UNCHANGED <<telegram, dns, flowVars, sAttempt, sDelay, warnedBusy, publicIp, idx, nAttempt, abortTimer,
                 histVars, lifeVars, harnessVars, cfgVars>>

\* lines 206-217: the catch of an attempt, then line 212 or the sleep of line
\* 215; t is the state the timer of line 186 is left in.  An exception leaving
\* sendTelegramMessage is caught at lines 261-263
attemptFailed(t) ==
  IF nAttempt = NotifyRetries
    THEN /\ notifResult' = [notifResult EXCEPT ![idx] = sendOnLastFailure]
         /\ nextDomain(idx + 1, IF sendOnLastFailure = "thrown"
                                  THEN [stage EXCEPT ![idx] = "updateError"]
                                  ELSE stage)
    ELSE /\ cpc' = "notifySleep"
         /\ abortTimer' = t
         /\ UNCHANGED <<notifResult, stage, idx, rt, nAttempt, flowVars>>

\* line 194: what becomes of the timer of line 186 once fetch has resolved
timerAfterFetch == "cleared"

\* lines 188-194: fetch resolved with the status line and headers of the
\* response; the timer is cleared and the body is awaited (line 197 or 201)
NotifyResponds ==
  /\ Alive /\ cpc = "notify"
  /\ cpc' = "notifyBody"
  /\ abortTimer' = timerAfterFetch
  /\ UNCHANGED <<telegram, dns, flowVars, sAttempt, sDelay, warnedBusy, publicIp, idx, rt,
                 nAttempt, histVars, lifeVars, harnessVars, cfgVars>>

\* the body arrived and says ok = true: lines 201-205
NotifyOk ==
  /\ Alive /\ cpc = "notifyBody"
  /\ notifResult' = [notifResult EXCEPT ![idx] = "sent"]
  /\ nextDomain(idx + 1, stage)
  /\ UNCHANGED <<telegram, dns, sAttempt, sDelay, warnedBusy, publicIp, ipResolves, calls,
                 fetched, patched, lifeVars, harnessVars, cfgVars>>

\* fetch rejected before any response (transport error); the timer of this
\* attempt is left armed and fires later on a controller nobody listens to
NotifyFails ==
  /\ Alive /\ cpc = "notify"
  /\ attemptFailed("armed")
  /\ UNCHANGED <<telegram, dns, sAttempt, sDelay, warnedBusy, publicIp, ipResolves, calls,
                 fetched, patched, lifeVars, harnessVars, cfgVars>>

\* the response is not ok (lines 196-199), its body says ok = false (line
\* 202) or reading the body failed
NotifyBodyFails ==
  /\ Alive /\ cpc = "notifyBody"
  /\ attemptFailed(abortTimer)
  /\ UNCHANGED <<telegram, dns, sAttempt, sDelay, warnedBusy, publicIp, ipResolves, calls,
                 fetched, patched, lifeVars, harnessVars, cfgVars>>

\* the callback of line 186: controller.abort() makes the pending await fail
NotifyTimeout ==
  /\ Alive /\ cpc \in {"notify", "notifyBody"} /\ abortTimer = "armed"
  /\ attemptFailed("fired")
  /\ UNCHANGED <<telegram, dns, sAttempt, sDelay, warnedBusy, publicIp, ipResolves, calls,
                 fetched, patched, lifeVars, harnessVars, cfgVars>>

NotifyWake ==
  /\ Alive /\ cpc = "notifySleep"
  /\ cpc' = "notify"
  /\ nAttempt' = nAttempt + 1
  /\ abortTimer' = "armed"
  /\ UNCHANGED <<telegram, dns, flowVars, sAttempt, sDelay, warnedBusy, publicIp, idx, rt,
                 histVars, lifeVars, harnessVars, cfgVars>>

\* ----------------------------------------------------- gracefulShutdown
\* line 338
alreadyShuttingDownMutant == FALSE
alreadyShuttingDown == isShuttingDown

Signal(sig) ==
  /\ Alive
  /\ UNCHANGED timerMs
  /\ IF alreadyShuttingDown
       THEN /\ ignoredSignal' = TRUE
            /\ UNCHANGED <<isShuttingDown, pollTimers, forceTimers, exitCode, timer>>
       ELSE /\ isShuttingDown' = TRUE
            /\ UNCHANGED ignoredSignal
            /\ timer' = IF timer = "armed" THEN "cleared" ELSE timer
            /\ IF isRunning
                 THEN /\ pollTimers' = pollTimers + 1
                      /\ forceTimers' = forceTimers + 1
                      /\ UNCHANGED exitCode
                 ELSE /\ exitCode' = {0}
                      /\ UNCHANGED <<pollTimers, forceTimers>>
  /\ UNCHANGED <<telegram, dns, isRunning, active, main, sAttempt, sDelay, warnedBusy, cycVars,
                 histVars, harnessVars, cfgVars>>

\* the setInterval callback of lines 350-356
PollTick ==
  /\ Alive /\ pollTimers > 0
  /\ IF ~isRunning
       THEN exitCode' = {0} /\ pollTimers' = pollTimers - 1
       ELSE UNCHANGED <<exitCode, pollTimers>>
  /\ UNCHANGED <<telegram, dns, flowVars, sAttempt, sDelay, warnedBusy, cycVars, histVars,
                 isShuttingDown, forceTimers, ignoredSignal, harnessVars, cfgVars>>

\* the setTimeout callback of lines 359-362.  The handle is never cleared and
\* the callback does not read isRunning: it is an event-loop task of its own,
\* ordered against the 100 ms poll only by their expiry times, so it can run
\* after the cycle has ended and before the next poll tick.
ForceTimeout ==
  /\ Alive /\ forceTimers > 0
  /\ exitCode' = {1}
  /\ UNCHANGED <<telegram, dns, flowVars, sAttempt, sDelay, warnedBusy, cycVars, histVars,
                 isShuttingDown, pollTimers, forceTimers, ignoredSignal, harnessVars, cfgVars>>

\* ------------------------------------------------------- specifications
Next ==
  \/ StartupDelayElapsed
  \/ \E resp \in IpResponses : ProbeReturns(resp)
  \/ ProbeWaitElapsed
  \/ TimerFires
  \/ \E resp \in IpResponses : IpReturns(resp)
  \/ FetchOk
  \/ \E e \in Errors : FetchFails(e)
  \/ FetchWake
  \/ UpdateOk
  \/ \E e \in Errors : UpdateFails(e)
  \/ UpdateWake
  \/ NotifyResponds
  \/ NotifyOk
  \/ NotifyFails
  \/ NotifyBodyFails
  \/ NotifyTimeout
  \/ NotifyWake
  \/ \E sig \in {"SIGINT", "SIGTERM"} : Signal(sig)
  \/ PollTick
  \/ ForceTimeout

Spec == Init /\ [][Next]_vars

\* checkAndUpdate under one more caller: a tick that may arrive at any time,
\* also while a cycle is in progress
Tick ==
  /\ Alive
  /\ IF busy
       THEN dropCall /\ UNCHANGED <<main, timer, timerMs>>
       ELSE startBody("tick") /\ UNCHANGED <<main, timer, timerMs>>
  /\ UNCHANGED <<telegram, dns, sAttempt, sDelay, lifeVars, harnessVars, cfgVars>>

NextTick == Next \/ Tick

SpecTick == Init /\ [][NextTick]_vars

\* retryCloudflareAPI on its own: fn is any function that throws or resolves,
\* and the options are drawn from 1..MaxRetries and InitialDelays
InitRetry ==
  /\ telegram = FALSE
  /\ dns = [d \in DOMAINS |-> Null]
  /\ rt \in {NewFrame(r, d) : r \in 1..MaxRetries, d \in InitialDelays}
  /\ main = "delay"
  /\ config = RunConfig(telegram)
  /\ loaded = loadConfig(config)
  /\ InitProgram

FnResolves ==
  /\ rt.status = "calling"
  /\ rt' = retryOnReturn(rt)
  /\ UNCHANGED <<telegram, dns, flowVars, sAttempt, sDelay, warnedBusy, cpc, publicIp, idx,
                 nAttempt, abortTimer, histVars, lifeVars, harnessVars, cfgVars>>

FnThrows(e) ==
  /\ rt.status = "calling"
  /\ rt' = retryOnThrow(rt, e)
  /\ hFails' = hFails + 1
  /\ hRaised' = e
  /\ UNCHANGED <<telegram, dns, flowVars, sAttempt, sDelay, warnedBusy, cpc, publicIp, idx,
                 nAttempt, abortTimer, histVars, lifeVars, cfgVars>>

SleepOver ==
  /\ rt.status = "sleeping"
  /\ rt' = retryOnWake(rt)
  /\ UNCHANGED <<telegram, dns, flowVars, sAttempt, sDelay, warnedBusy, cpc, publicIp, idx,
                 nAttempt, abortTimer, histVars, lifeVars, harnessVars, cfgVars>>

NextRetry ==
  \/ FnResolves
  \/ \E e \in Errors : FnThrows(e)
  \/ SleepOver

SpecRetry == InitRetry /\ [][NextRetry]_vars

\* the program while no termination signal arrives and every pending await
\* and timer is eventually served
NextLive ==
  \/ StartupDelayElapsed
  \/ \E resp \in IpResponses : ProbeReturns(resp)
  \/ ProbeWaitElapsed
  \/ TimerFires
  \/ \E resp \in IpResponses : IpReturns(resp)
  \/ FetchOk
  \/ \E e \in Errors : FetchFails(e)
  \/ FetchWake
  \/ UpdateOk
  \/ \E e \in Errors : UpdateFails(e)
  \/ UpdateWake
  \/ NotifyResponds
  \/ NotifyOk
  \/ NotifyFails
  \/ NotifyBodyFails
  \/ NotifyTimeout
  \/ NotifyWake

SpecLive == Init /\ [][NextLive]_vars /\ WF_vars(NextLive)

\* the process from the load of the module to the start of the first cycle
\* or the first armed timer, under every configuration of Configs
InitConfig ==
  /\ telegram = FALSE
  /\ dns = [d \in DOMAINS |-> Null]
  /\ rt = NoFrame
  /\ main = "boot"
  /\ config \in Configs
  /\ loaded = <<>>
  /\ InitProgram

\* lines 70 and 375-381: loadConfig(), validateConfig(), then startupWithRetry
\* runs to its first await (line 304)
Boot ==
  /\ Alive /\ main = "boot"
  /\ loaded' = loadConfig(config)
  /\ telegram' = telegramConfigured(config)
  /\ IF validateErrors(loaded') # {}
       THEN exitCode' = {1} /\ UNCHANGED main                    \* line 96
       ELSE main' = "delay" /\ UNCHANGED exitCode
  /\ UNCHANGED <<dns, isRunning, isShuttingDown, timer, timerMs, sAttempt, sDelay, active,
                 warnedBusy, cycVars, histVars, pollTimers, forceTimers, ignoredSignal,
                 harnessVars, config>>

NextConfig ==
  \/ Boot
  \/ StartupDelayElapsed
  \/ \E resp \in IpResponses : ProbeReturns(resp)
  \/ ProbeWaitElapsed

SpecConfig == InitConfig /\ [][NextConfig]_vars

\* ================================================================ claims

\* a step in which checkAndUpdate is called
InvokeStep ==
  \/ Tick
  \/ TimerFires
  \/ \E resp \in IpResponses : getPublicIp(resp) # Null /\ ProbeReturns(resp)

\* C1: at most one checkAndUpdate body executes at any time, and a call that
\* finds isRunning true is dropped: it warns, starts nothing, issues no
\* request, changes nothing of the cycle in progress and leaves isRunning true.
C1_SingleCycle ==
  /\ [](Cardinality(active) <= 1 /\ (isRunning <=> active # {}))
  /\ [][(isRunning /\ InvokeStep) =>
          (isRunning' /\ warnedBusy' /\ UNCHANGED <<active, cycVars, histVars, dns>>)]_vars

C1_Witness == warnedBusy /\ isRunning /\ cpc = "update" /\ Cardinality(active) = 1

\* C2: a domain whose fetched record value equals the public IP of the cycle
\* gets no PATCH request and no notification in that cycle.
C2_NoUpdateOnMatch ==
  \A d \in DOMAINS :
    (fetched[d] # Null /\ fetched[d] = publicIp) =>
      (stage[d] = "match" /\ patched[d] = Null /\ notifResult[d] = "none")

C2_Witness ==
  /\ cpc = "idle" /\ stage[1] = "match" /\ fetched[1] = publicIp
  /\ stage[2] = "updated" /\ patched[1] = Null

\* C3: a cycle resolves the public IP at most once; the resolved value does not
\* change while the domains are processed, it is the value every fetched record
\* is compared with and the content of every PATCH request of the cycle.
C3_SingleResolution ==
  /\ [](/\ ipResolves <= 1
        /\ \A d \in DOMAINS :
             /\ patched[d] \in {Null, publicIp}
             /\ stage[d] = "match" => fetched[d] = publicIp
             /\ stage[d] \in {"updating", "updated", "updateError"} =>
                  (fetched[d] # publicIp /\ patched[d] = publicIp))
  /\ [][publicIp' # publicIp => (cpc = "ip" \/ cpc' = "ip")]_vars

C3_Witness ==
  /\ cpc = "idle" /\ ipResolves = 1
  /\ \A d \in DOMAINS : stage[d] = "updated" /\ patched[d] = publicIp /\ dns[d] = publicIp

\* C4: when the resolution of the public IP yields no address the cycle ends
\* at once: no domain is fetched, updated or notified, isRunning is reset and
\* the process does not exit.
C4_NoIpNoWork ==
  /\ []((cpc # "ip" /\ publicIp = Null) =>
          (/\ cpc = "idle" /\ ~isRunning
           /\ \A d \in DOMAINS :
                stage[d] = "none" /\ fetched[d] = Null /\ patched[d] = Null
                /\ notifResult[d] = "none"))
  /\ [][(cpc = "ip" /\ cpc' # "ip" /\ publicIp' = Null) =>
          (exitCode' = {} /\ dns' = dns)]_vars

C4_Witness ==
  /\ ipResolves = 1 /\ cpc = "idle" /\ publicIp = Null
  /\ Alive /\ timer = "armed" /\ \E d \in DOMAINS : dns[d] # Null

\* what line 121 must give for the a-th failed attempt
ExpectedDelay(base, a) ==
  IF base * (2 ^ (a - 1)) > 10000 THEN 10000 ELSE base * (2 ^ (a - 1))

\* C5: retryCloudflareAPI returns after exactly K+1 calls of fn when fn fails K
\* times and then resolves; the delay slept after failed attempt a is
\* min(initialDelayMs * 2^(a-1), 10000); when every attempt fails fn is called
\* exactly `retries` times, nothing is slept after the last failure and the
\* error of the last attempt is thrown.
C5_RetryBackoff ==
  /\ Len(rt.delays) <= hFails
  /\ \A a \in 1..Len(rt.delays) : rt.delays[a] = ExpectedDelay(rt.initialDelayMs, a)
  /\ rt.status = "returned" =>
       (hFails < rt.retries /\ rt.calls = hFails + 1 /\ Len(rt.delays) = hFails)
  /\ rt.status = "thrown" =>
       (/\ rt.calls = rt.retries /\ hFails = rt.retries
        /\ Len(rt.delays) = rt.retries - 1 /\ rt.error = hRaised)
  /\ rt.status \in {"calling", "sleeping"} => rt.calls <= rt.retries

C5_Witness ==
  /\ rt.status = "returned" /\ hFails = 3 /\ rt.calls = 4
  /\ rt.delays = <<4000, 8000, 10000>>

\* C6: a fetch or an update that fails on every attempt stays within its
\* domain: the next domain of the list is fetched in the same cycle (and
\* updated if it is stale), the cycle ends normally after the last domain and
\* the process does not exit.
C6_FailureStaysInDomain ==
  /\ [](\A d \in DOMAINS :
          /\ stage[d] \in {"fetchError", "updateError"} =>
               IF d < NumDomains THEN stage[d + 1] # "none"
                                 ELSE cpc = "idle" /\ ~isRunning
          /\ (cpc = "idle" /\ publicIp # Null) =>
               /\ stage[d] \in {"noRecord", "match", "updated", "fetchError", "updateError"}
               /\ (fetched[d] # Null /\ fetched[d] # publicIp) =>
                    stage[d] \in {"updated", "updateError"})
  /\ [][(\E d \in DOMAINS : stage'[d] # stage[d]
                             /\ stage'[d] \in {"fetchError", "updateError"})
          => exitCode' = {}]_vars

C6_Witness ==
  /\ cpc = "idle" /\ Alive /\ stage[1] = "fetchError"
  /\ stage[NumDomains] = "updated" /\ dns[NumDomains] = publicIp

\* C7: a notification that fails on all its attempts returns not-sent and
\* raises nothing: the update stays applied and logged as successful, the
\* next domain is processed and the cycle ends normally.
C7_NotifyFailureSwallowed ==
  \A d \in DOMAINS :
    notifResult[d] \notin {"none", "pending", "sent", "skipped"} =>
      /\ notifResult[d] = "notSent"
      /\ stage[d] = "updated" /\ dns[d] = publicIp
      /\ IF d < NumDomains THEN stage[d + 1] # "none" ELSE cpc = "idle" /\ ~isRunning

C7_Witness ==
  /\ cpc = "idle" /\ Alive /\ ~isRunning
  /\ notifResult[1] = "notSent" /\ stage[1] = "updated" /\ dns[1] = publicIp
  /\ stage[NumDomains] = "match"

\* C8: on a termination signal the process exits at once with status 0 when no
\* cycle is running; when a cycle is running it does not exit with status 0
\* before the cycle has completed, and whenever the cycle has completed before
\* the process exits, the exit status is 0.
C8_CleanExit ==
  /\ (isShuttingDown /\ pollTimers = 0 /\ forceTimers = 0) => exitCode = {0}
  /\ exitCode = {0} => ~isRunning
  /\ (exitCode # {} /\ ~isRunning) => exitCode = {0}

\* C9: the process exits with a non-zero status only when a signal arrived
\* during a cycle and that cycle is still running when the 30 s timer fires.
C9_ForceExitOnlyWhenStuck ==
  exitCode = {1} => (isShuttingDown /\ forceTimers > 0 /\ isRunning)

\* C10: once isShuttingDown is true no checkAndUpdate body starts and no timer
\* is pending: an armed timer is cancelled and a cycle that completes during
\* shutdown arms no successor.
C10_NoCycleAfterSignal ==
  /\ [](isShuttingDown => timer # "armed")
  /\ [][isShuttingDown' => ~(~isRunning /\ isRunning')]_vars
  /\ [][isShuttingDown => (ipResolves' = ipResolves /\ active' \subseteq active)]_vars

C10_Witness ==
  /\ isShuttingDown /\ Alive /\ ~isRunning /\ pollTimers > 0
  /\ main = "done" /\ timer = "null" /\ ipResolves = 1

\* a step in which gracefulShutdown is called
SignalStep == \E sig \in {"SIGINT", "SIGTERM"} : Signal(sig)

\* C11: isShuttingDown never goes back to false, and a signal delivered while
\* it is true does nothing: at most one poll interval and one force timer ever
\* exist, the step changes nothing of the shutdown in progress, and an exit
\* status once set is never changed.
C11_SecondSignalNoOp ==
  /\ [](pollTimers <= 1 /\ forceTimers <= 1)
  /\ [][isShuttingDown => isShuttingDown']_vars
  /\ [][(isShuttingDown /\ SignalStep) =>
          UNCHANGED <<isShuttingDown, pollTimers, forceTimers, exitCode, flowVars,
                      cycVars, histVars, dns>>]_vars
  /\ [][exitCode # {} => exitCode' = exitCode]_vars

C11_Witness ==
  /\ ignoredSignal /\ exitCode = {0} /\ forceTimers = 1 /\ pollTimers = 0

\* C12: the timer is armed only while no cycle is running: it is armed by the
\* step that ends a cycle (or the last failed startup probe), the handle that
\* fired stays unarmed for the whole cycle it started, and a cycle starts only
\* when the previous one has left nothing pending.
C12_NoOverlap ==
  /\ [](timer = "armed" => (~isRunning /\ active = {} /\ cpc = "idle" /\ main = "done"))
  /\ [][(timer # "armed" /\ timer' = "armed") =>
          ((isRunning /\ ~isRunning') \/ main = "probe")]_vars
  /\ [][(~isRunning /\ isRunning') =>
          (cpc = "idle" /\ active = {} /\ timer' # "armed"
           /\ \A d \in DOMAINS : notifResult[d] # "pending")]_vars

C12_Witness ==
  /\ active = {"timer"} /\ cpc = "update" /\ timer = "fired" /\ idx = NumDomains

\* C13: startupWithRetry probes at most 5 times; a probe that returns an
\* address starts one cycle and ends the probing; after failed probe i < 5 it
\* sleeps min(5000 * i, 30000) ms and after the fifth it does not sleep; once
\* it has returned the timer has been armed (unless a signal came), and the
\* process exits only through a signal.
C13_Startup ==
  /\ [](sAttempt <= 5)
  /\ [](main = "probeWait" =>
          (sAttempt < 5 /\ sDelay = (IF sAttempt <= 6 THEN 5000 * sAttempt ELSE 30000)))
  /\ [](main # "probeWait" => sDelay = 0)
  /\ [](main = "cycle" => active = {"startup"})
  /\ [](main = "done" => ("startup" \notin active /\ (~isShuttingDown => timer # "null")))
  /\ [][(main = "cycle" \/ main = "done") => (sAttempt' = sAttempt /\ main' \in {"cycle", "done"})]_vars
  /\ [][(main = "probe" /\ main' = "cycle") => (publicIp' = Null /\ cpc' = "ip")]_vars
  /\ [](exitCode # {} => isShuttingDown)

C13_Witness ==
  /\ main = "done" /\ sAttempt = 5 /\ timer = "armed" /\ ipResolves = 0 /\ Alive

\* entries of domains[] that carry both a name and a zone id
UsableEntries(c) == {i \in 1..Len(c.domains) : c.domains[i].name /\ c.domains[i].zoneId}

\* the credential entry i would act with
Credential(c, i) ==
  IF c.domains[i].apiToken = "absent" THEN c.defaults.apiToken ELSE c.domains[i].apiToken

NoUsableCredential(c) ==
  \/ UsableEntries(c) = {}
  \/ \E i \in UsableEntries(c) : Credential(c, i) # "tok"

\* C14: under a configuration with no valid domain, or with a valid domain
\* whose credential (own, else default) is absent or blank, the process exits
\* with status 1 in its first step, before any startup delay, probe or
\* request; no other configuration makes the process exit at load, whatever
\* its telegram section holds.
C14_FatalConfig ==
  /\ [](NoUsableCredential(config) =>
          (/\ main = "boot" /\ exitCode \subseteq {1}
           /\ sAttempt = 0 /\ cpc = "idle" /\ ~isRunning /\ timer = "null"))
  /\ [][(main = "boot" /\ NoUsableCredential(config)) => exitCode' = {1}]_vars
  /\ [](exitCode # {} => NoUsableCredential(config))
  /\ [][(main = "boot" /\ ~NoUsableCredential(config)) => main' = "delay"]_vars

C14_Witness ==
  /\ exitCode = {1} /\ main = "boot"
  /\ Len(config.domains) = NumDomains /\ UsableEntries(config) = 1..NumDomains
  /\ config.defaults.apiToken = "blank" /\ config.telegram = "full"
  /\ config.domains[1].apiToken = "tok" /\ config.domains[NumDomains].apiToken = "absent"

\* C15: under a configuration in which some entry of domains[] lacks its name
\* or its zone id the process never gets past validation.
C15_RejectsIncompleteEntry ==
  (\E i \in 1..Len(config.domains) : ~config.domains[i].name \/ ~config.domains[i].zoneId)
    => (main = "boot" /\ exitCode \subseteq {1})

\* C16: a fetch answered with an empty record list ends the handling of that
\* domain in the step the answer arrives: no retry sleep, no error stage, no
\* update call, no notification; the loop goes on with the next domain (or the
\* cycle ends), and every new cycle starts with all domains unhandled.
C16_EmptyAnswerSkips ==
  /\ [](\A d \in DOMAINS : stage[d] = "noRecord" =>
          (/\ fetched[d] = Null /\ patched[d] = Null /\ notifResult[d] = "none"
           /\ calls[d].update = 0 /\ calls[d].notify = 0
           /\ ~(idx = d /\ isRunning)))
  /\ [][(FetchOk /\ dns[idx] = Null) =>
          (/\ stage'[idx] = "noRecord"
           /\ IF idx < NumDomains
                THEN idx' = idx + 1 /\ cpc' = "fetch" /\ stage'[idx + 1] = "fetching"
                ELSE ~isRunning' /\ cpc' = "idle")]_vars
  /\ [][\A d \in DOMAINS : (stage[d] # "noRecord" /\ stage'[d] = "noRecord") =>
          (idx = d /\ cpc = "fetch" /\ stage[d] = "fetching" /\ dns[d] = Null)]_vars
  /\ [][(~isRunning /\ isRunning') => \A d \in DOMAINS : stage'[d] = "none"]_vars

C16_Witness ==
  /\ active = {"timer"} /\ cpc = "update"
  /\ stage[1] = "noRecord" /\ stage[NumDomains] = "updating"

\* C17: an armed timer was armed with defaults.checkIntervalSeconds of the
\* configuration, and with 60 s when the configuration has no such key.
C17_ConfiguredInterval ==
  timer = "armed" =>
    timerMs = 1000 * (IF config.defaults.checkIntervalSeconds = 0
                        THEN 60 ELSE config.defaults.checkIntervalSeconds)

\* C18: a domain whose record differs from the public IP gets one call of
\* updateARecord, making at most 3 PATCH requests, with the public IP as
\* content and the record id of its own fetch as target; sendTelegramMessage
\* is called once when the PATCH succeeded and not at all before or when it
\* failed; every other domain gets neither call.
C18_OneUpdatePerStaleDomain ==
  /\ \A d \in DOMAINS :
       /\ stage[d] \in {"updating", "updated", "updateError"} =>
            (/\ calls[d].update = 1 /\ calls[d].target = RecId(d)
             /\ patched[d] = publicIp /\ fetched[d] # publicIp /\ fetched[d] # Null)
       /\ stage[d] \notin {"updating", "updated", "updateError"} =>
            (calls[d].update = 0 /\ calls[d].notify = 0 /\ patched[d] = Null)
       /\ stage[d] = "updated" => (calls[d].notify = 1 /\ notifResult[d] # "none")
       /\ stage[d] \in {"updating", "updateError"} =>
            (calls[d].notify = 0 /\ notifResult[d] = "none")
  /\ (cpc \in {"update", "updateSleep"}) => (rt.calls <= 3 /\ stage[idx] = "updating")

C18_Witness ==
  /\ cpc = "idle" /\ stage[1] = "updateError" /\ calls[1].update = 1
  /\ stage[NumDomains] = "updated" /\ calls[NumDomains].notify = 1
  /\ calls[NumDomains].target = RecId(NumDomains) /\ dns[NumDomains] = publicIp

\* C19: while the notification of a domain is pending the cycle has already
\* gone on: the next domain has been started, or, for the last domain, the
\* cycle has ended.
C19_NotifyDoesNotBlock ==
  \A d \in DOMAINS :
    notifResult[d] = "pending" =>
      (IF d < NumDomains THEN stage[d + 1] # "none" ELSE ~isRunning)

\* C20: the domains are handled in the order of DOMAINS, one at a time: the
\* only domain with a request in flight is the one the loop is at, every
\* domain before a started one is finished, and the fetch of a domain is
\* issued by the step that finishes its predecessor (or, for the first, by the
\* step that resolved the public IP).
C20_Sequential ==
  /\ [](\A d \in DOMAINS :
          /\ stage[d] \in {"fetching", "updating"} => (idx = d /\ isRunning)
          /\ stage[d] # "none" =>
               \A e \in 1..(d - 1) : stage[e] \notin {"none", "fetching", "updating"})
  /\ [](Cardinality({d \in DOMAINS : stage[d] \in {"fetching", "updating"}}) <= 1)
  /\ [][\A d \in DOMAINS :
          (stage[d] = "none" /\ stage'[d] = "fetching") =>
            IF d = 1 THEN cpc = "ip"
            ELSE (idx = d - 1 /\ stage[d - 1] \in {"fetching", "updating", "updated"}
                   /\ stage'[d - 1] \notin {"none", "fetching", "updating"})]_vars

C20_Witness ==
  /\ stage[1] = "updated" /\ stage[NumDomains] = "updating" /\ cpc = "updateSleep"
  /\ idx = NumDomains

\* C21: while an attempt of sendTelegramMessage awaits its response, status
\* line or body, the abort timer of that attempt is pending.
C21_AttemptBounded ==
  (cpc = "notify" \/ cpc = "notifyBody") => abortTimer = "armed"

\* a step in which the program as wired calls checkAndUpdate
WiredInvoke ==
  \/ TimerFires
  \/ \E resp \in IpResponses : getPublicIp(resp) # Null /\ ProbeReturns(resp)

\* C22: in the program as wired every call of checkAndUpdate finds isRunning
\* false and starts a body; the warning of line 269 is never issued; while
\* startup has not returned no timer exists, and an armed timer exists only
\* while no body runs.
C22_BusyUnreachable ==
  /\ [](~warnedBusy)
  /\ [][WiredInvoke => (~isRunning /\ isRunning' /\ active = {} /\ Cardinality(active') = 1)]_vars
  /\ [](main # "done" => timer = "null")
  /\ []((main = "delay" \/ main = "probe" \/ main = "probeWait") => ~isRunning)
  /\ [](timer = "armed" => ~isRunning)

C22_Witness ==
  /\ active = {"timer"} /\ cpc = "ip" /\ sAttempt = 1 /\ isRunning /\ ~warnedBusy
  /\ main = "done" /\ timer = "fired"

\* C23: every cycle ends, on each of its paths, with isRunning false and
\* nothing raised, the step that ends it arms the timer, and cycles recur
\* forever.
C23_NeverStalls ==
  /\ [](isRunning <=> cpc # "idle")
  /\ [](\A d \in DOMAINS : notifResult[d] # "thrown")
  /\ []((~isRunning /\ main = "done") => timer = "armed")
  /\ [][(isRunning /\ ~isRunning') => (timer' = "armed" /\ main' = "done" /\ Alive')]_vars
  /\ (isRunning ~> ~isRunning)
  /\ []<>isRunning

C23_Witness ==
  /\ ~isRunning /\ main = "done" /\ timer = "armed" /\ Alive
  /\ stage[1] = "updateError" /\ stage[NumDomains] = "fetchError"

============================================================================
